---------------------------- MODULE Spec2Model ----------------------------
(***************************************************************************)
(* A model of fuzzylogic.py: the fuzzy sets (Constant, Triangular,         *)
(* Trapezoidal, Z/S-shape), the lazy AND/OR composites, FuzzyRule and      *)
(* FuzzySystem.output.                                                     *)
(*                                                                         *)
(* Numbers are exact rationals [n, d] with d > 0 in lowest terms.  A call  *)
(* either returns a value or raises: its outcome is [exc, val], exc being  *)
(* "none" or the name of the Python exception.                             *)
(***************************************************************************)
EXTENDS Integers, Sequences, FiniteSets

VARIABLES A, B, x, call, ret, system

vars == <<A, B, x, call, ret, system>>

(***************************************************************************)
(* Bounds of the model.                                                    *)
(***************************************************************************)
\* shape parameters are the integers 0..MaxCoord
MaxCoord == 2
\* input vectors have NumChannels components; input_num is in 0..NumChannels-1
NumChannels == 2
\* a FuzzySystem holds at most MaxRules rules
MaxRules == 2

(***************************************************************************)
(* Python numbers, as exact rationals.                                     *)
(***************************************************************************)
Abs(i) == IF i < 0 THEN 0 - i ELSE i

RECURSIVE GCD(_, _)
GCD(i, j) == IF j = 0 THEN Abs(i) ELSE GCD(j, i % Abs(j))

Rat(n, d) ==
    LET s == IF d < 0 THEN 0 - 1 ELSE 1
        g == GCD(Abs(n), Abs(d))
    IN  [n |-> (s * n) \div g, d |-> (s * d) \div g]

Num(i) == [n |-> i, d |-> 1]

Zero == Num(0)
One == Num(1)

RatAdd(p, q) == Rat(p.n * q.d + q.n * p.d, p.d * q.d)
RatSub(p, q) == Rat(p.n * q.d - q.n * p.d, p.d * q.d)
RatMul(p, q) == Rat(p.n * q.n, p.d * q.d)
RatEq(p, q) == p.n * q.d = q.n * p.d
RatLt(p, q) == p.n * q.d < q.n * p.d
RatLe(p, q) == p.n * q.d <= q.n * p.d

(***************************************************************************)
(* Outcomes of a call.                                                     *)
(***************************************************************************)
Return(v) == [exc |-> "none", val |-> v]
Raise(e) == [exc |-> e, val |-> Zero]
Ok(r) == r.exc = "none"

\* Python's p / q on numbers
TrueDiv(p, q) ==
    IF q.n = 0 THEN Raise("ZeroDivisionError")
    ELSE Return(Rat(p.n * q.d, p.d * q.n))

\* Python's min(r1, r2) and max(r1, r2) on the outcomes of the two argument
\* expressions, evaluated left to right
PyMin(r1, r2) ==
    IF ~Ok(r1) THEN r1
    ELSE IF ~Ok(r2) THEN r2
    ELSE IF RatLt(r2.val, r1.val) THEN r2 ELSE r1

PyMax(r1, r2) ==
    IF ~Ok(r1) THEN r1
    ELSE IF ~Ok(r2) THEN r2
    ELSE IF RatLt(r1.val, r2.val) THEN r2 ELSE r1

(***************************************************************************)
(* Arguments of membership: a bare scalar or a list (an input vector).     *)
(***************************************************************************)
Scalar(v) == [isList |-> FALSE, items |-> <<v>>]
List(s) == [isList |-> TRUE, items |-> s]

(***************************************************************************)
(* The constructors.  None validates its parameters.                       *)
(***************************************************************************)
ConstantFuzzySet(value) ==
    [cls |-> "ConstantFuzzySet", value |-> value]

TriangularFuzzySet(a, b, c) ==
    [cls |-> "TriangularFuzzySet", a |-> a, b |-> b, c |-> c]

TrapezoidalFuzzySet(a, b, c, d) ==
    [cls |-> "TrapezoidalFuzzySet", a |-> a, b |-> b, c |-> c, d |-> d]

ZShapeFuzzySet(a, b, input_num, inverted) ==
    [cls |-> "ZShapeFuzzySet", a |-> a, b |-> b,
     inverted |-> inverted, input_num |-> input_num]

AndFuzzySet(set1, set2) ==
    [cls |-> "AndFuzzySet", set1 |-> set1, set2 |-> set2]

OrFuzzySet(set1, set2) ==
    [cls |-> "OrFuzzySet", set1 |-> set1, set2 |-> set2]

(***************************************************************************)
(* membership, class by class.                                             *)
(***************************************************************************)
\* x == self.value is False for a list
ConstantMembership(self, v) ==
    IF ~v.isList /\ RatEq(v.items[1], self.value)
    THEN Return(One) ELSE Return(Zero)

TriangularMembershipStrict(self, v) ==
    IF v.isList THEN Raise("TypeError")
    ELSE LET xx == v.items[1] IN
         IF RatLt(xx, self.a) \/ RatLt(self.c, xx) THEN Return(Zero)
         ELSE IF RatEq(xx, self.b) THEN Return(One)
         ELSE IF RatLt(self.a, xx) /\ RatLt(xx, self.b)
              THEN TrueDiv(RatSub(xx, self.a), RatSub(self.b, self.a))
         ELSE TrueDiv(RatSub(self.c, xx), RatSub(self.c, self.b))

\* x <= self.a raises TypeError for a list
TriangularMembership(self, v) ==
    IF v.isList THEN Raise("TypeError")
    ELSE LET xx == v.items[1] IN
         IF RatLe(xx, self.a) \/ RatLe(self.c, xx) THEN Return(Zero)
         ELSE IF RatEq(xx, self.b) THEN Return(One)
         ELSE IF RatLt(self.a, xx) /\ RatLt(xx, self.b)
              THEN TrueDiv(RatSub(xx, self.a), RatSub(self.b, self.a))
         ELSE TrueDiv(RatSub(self.c, xx), RatSub(self.c, self.b))

TrapezoidalMembership(self, v) ==
    IF v.isList THEN Raise("TypeError")
    ELSE LET xx == v.items[1] IN
         IF RatLe(xx, self.a) \/ RatLe(self.d, xx) THEN Return(Zero)
         ELSE IF RatLe(self.b, xx) /\ RatLe(xx, self.c) THEN Return(One)
         ELSE IF RatLt(xx, self.b)
              THEN TrueDiv(RatSub(xx, self.a), RatSub(self.b, self.a))
         ELSE TrueDiv(RatSub(self.d, xx), RatSub(self.d, self.c))

\* 1 - p / q
OneMinus(r) == IF Ok(r) THEN Return(RatSub(One, r.val)) ELSE r

ZShapeMembershipNoComplement(self, v) ==
    IF v.isList /\ self.input_num + 1 > Len(v.items) THEN Raise("IndexError")
    ELSE LET xx == IF v.isList THEN v.items[self.input_num + 1]
                   ELSE v.items[1]
         IN  IF self.inverted
             THEN IF RatLe(xx, self.a) THEN Return(Zero)
                  ELSE IF RatLe(self.b, xx) THEN Return(One)
                  ELSE TrueDiv(RatSub(xx, self.a), RatSub(self.b, self.a))
             ELSE IF RatLe(xx, self.a) THEN Return(One)
                  ELSE IF RatLe(self.b, xx) THEN Return(Zero)
                  ELSE TrueDiv(RatSub(xx, self.a), RatSub(self.b, self.a))

ZShapeMembership(self, v) ==
    IF v.isList /\ self.input_num + 1 > Len(v.items) THEN Raise("IndexError")
    ELSE LET xx == IF v.isList THEN v.items[self.input_num + 1]
                   ELSE v.items[1]
         IN  IF self.inverted
             THEN IF RatLe(xx, self.a) THEN Return(Zero)
                  ELSE IF RatLe(self.b, xx) THEN Return(One)
                  ELSE TrueDiv(RatSub(xx, self.a), RatSub(self.b, self.a))
             ELSE IF RatLe(xx, self.a) THEN Return(One)
                  ELSE IF RatLe(self.b, xx) THEN Return(Zero)
                  ELSE OneMinus(TrueDiv(RatSub(xx, self.a),
                                        RatSub(self.b, self.a)))

AndMembershipFirst(m1, m2) == m1

AndMembership(m1, m2) == PyMin(m1, m2)

OrMembership(m1, m2) == PyMax(m1, m2)

\* fuzzy_set.membership(x), dispatched on the class of the object
RECURSIVE membership(_, _)
membership(self, v) ==
    CASE self.cls = "ConstantFuzzySet" -> ConstantMembership(self, v)
      [] self.cls = "TriangularFuzzySet" -> TriangularMembership(self, v)
      [] self.cls = "TrapezoidalFuzzySet" -> TrapezoidalMembership(self, v)
      [] self.cls = "ZShapeFuzzySet" -> ZShapeMembership(self, v)
      [] self.cls = "AndFuzzySet" ->
            AndMembership(membership(self.set1, v), membership(self.set2, v))
      [] self.cls = "OrFuzzySet" ->
            OrMembership(membership(self.set1, v), membership(self.set2, v))

(***************************************************************************)
(* The & and | operators.  Only TrapezoidalFuzzySet and ZShapeFuzzySet     *)
(* define __and__ and __or__; no class defines the reflected forms.        *)
(***************************************************************************)
NumMax(p, q) == IF RatLt(p, q) THEN q ELSE p
NumMin(p, q) == IF RatLt(q, p) THEN q ELSE p

\* other.d is read: only a TrapezoidalFuzzySet has all of a, b, c, d
TrapezoidalFuzzySet_and(self, other) ==
    IF other.cls # "TrapezoidalFuzzySet" THEN Raise("AttributeError")
    ELSE Return(TrapezoidalFuzzySet(NumMax(self.a, other.a),
                                    NumMax(self.b, other.b),
                                    NumMin(self.c, other.c),
                                    NumMin(self.d, other.d)))

TrapezoidalFuzzySet_or(self, other) ==
    IF other.cls # "TrapezoidalFuzzySet" THEN Raise("AttributeError")
    ELSE Return(TrapezoidalFuzzySet(NumMin(self.a, other.a),
                                    NumMin(self.b, other.b),
                                    NumMax(self.c, other.c),
                                    NumMax(self.d, other.d)))

ZShapeFuzzySet_andAsOr(self, other) == Return(OrFuzzySet(self, other))

ZShapeFuzzySet_and(self, other) == Return(AndFuzzySet(self, other))

ZShapeFuzzySet_or(self, other) == Return(OrFuzzySet(self, other))

\* self & other
BitAnd(self, other) ==
    CASE self.cls = "TrapezoidalFuzzySet" -> TrapezoidalFuzzySet_and(self, other)
      [] self.cls = "ZShapeFuzzySet" -> ZShapeFuzzySet_and(self, other)
      [] OTHER -> Raise("TypeError")

\* self | other
BitOr(self, other) ==
    CASE self.cls = "TrapezoidalFuzzySet" -> TrapezoidalFuzzySet_or(self, other)
      [] self.cls = "ZShapeFuzzySet" -> ZShapeFuzzySet_or(self, other)
      [] OTHER -> Raise("TypeError")

(***************************************************************************)
(* FuzzyRule.                                                              *)
(***************************************************************************)
FuzzyRule(antecedent, consequent) ==
    [antecedent |-> antecedent, consequent |-> consequent]

evaluate(self, v) == membership(self.antecedent, v)

\* consequent.x_value(): only ConstantFuzzySet defines x_value
x_value(self) ==
    IF self.cls = "ConstantFuzzySet" THEN Return(self.value)
    ELSE Raise("AttributeError")

\* get_output() with x left at None
get_output(self) == x_value(self.consequent)

(***************************************************************************)
(* FuzzySystem.                                                            *)
(***************************************************************************)
FuzzySystem(rules) == [cls |-> "FuzzySystem", rules |-> rules]

\* a list comprehension: the first element that raises ends it
RECURSIVE FirstRaise(_, _)
FirstRaise(rs, i) ==
    IF i > Len(rs) THEN Return(Zero)
    ELSE IF ~Ok(rs[i]) THEN rs[i]
    ELSE FirstRaise(rs, i + 1)

Vals(rs) == [i \in 1..Len(rs) |-> rs[i].val]

RECURSIVE FmaxFold(_, _, _)
FmaxFold(s, i, acc) ==
    IF i > Len(s) THEN acc ELSE FmaxFold(s, i + 1, NumMax(acc, s[i]))

\* np.fmax.reduce(strengths): fmax has no identity
fmax_reduce(s) ==
    IF Len(s) = 0 THEN Raise("ValueError")
    ELSE Return(FmaxFold(s, 2, s[1]))

RECURSIVE np_sum(_)
np_sum(s) == IF Len(s) = 0 THEN Zero ELSE RatAdd(s[1], np_sum(Tail(s)))

\* numpy's true division of scalars: no exception, inf or nan on a zero divisor
np_divide(p, q) ==
    IF q.n = 0 THEN Raise("inf_or_nan")
    ELSE Return(Rat(p.n * q.d, p.d * q.n))

WeightedAverageByMax(values, strengths) ==
    np_divide(np_sum([i \in 1..Len(values) |-> RatMul(values[i], strengths[i])]),
              FmaxFold(strengths, 1, Zero))

\* np.sum(values * np.array(strengths), axis=0) / np.sum(strengths)
WeightedAverage(values, strengths) ==
    np_divide(np_sum([i \in 1..Len(values) |-> RatMul(values[i], strengths[i])]),
              np_sum(strengths))

output(self, v) ==
    LET rules == self.rules
        strengths == [i \in 1..Len(rules) |-> evaluate(rules[i], v)]
    IN  IF ~Ok(FirstRaise(strengths, 1)) THEN FirstRaise(strengths, 1)
        ELSE LET output_strength == fmax_reduce(Vals(strengths)) IN
             IF ~Ok(output_strength) THEN output_strength
             ELSE IF RatEq(output_strength.val, Zero) THEN Return(Zero)
             ELSE LET outs == [i \in 1..Len(rules) |-> get_output(rules[i])] IN
                  IF ~Ok(FirstRaise(outs, 1)) THEN FirstRaise(outs, 1)
                  ELSE WeightedAverage(Vals(outs), Vals(strengths))

(***************************************************************************)
(* The values the model draws its inputs from.                             *)
(***************************************************************************)
Coords == 0..MaxCoord
Channels == 0..(NumChannels - 1)

\* scalar inputs: every half step from -1/2 to MaxCoord + 1/2
Scalars == {Scalar(Rat(k, 2)) : k \in (0 - 1)..(2 * MaxCoord + 1)}

\* input vectors: NumChannels integer components
Vectors == {List(s) : s \in [1..NumChannels -> {Num(i) : i \in Coords}]}

NoSet == [cls |-> "None"]
NoSystem == [cls |-> "None"]
NoArg == [isList |-> FALSE, items |-> <<>>]
NoRet == [exc |-> "nocall", val |-> Zero]

\* the shape orderings the documentation of the sets asks for
WellFormed(fs) ==
    CASE fs.cls = "TriangularFuzzySet" ->
            RatLe(fs.a, fs.b) /\ RatLe(fs.b, fs.c)
      [] fs.cls = "TrapezoidalFuzzySet" ->
            RatLe(fs.a, fs.b) /\ RatLe(fs.b, fs.c) /\ RatLe(fs.c, fs.d)
      [] fs.cls = "ZShapeFuzzySet" -> RatLt(fs.a, fs.b)
      [] OTHER -> TRUE

AllConstant == {ConstantFuzzySet(Num(v)) : v \in Coords}
AllTriangular ==
    {TriangularFuzzySet(Num(a), Num(b), Num(c)) : a, b, c \in Coords}
AllTrapezoidal ==
    {TrapezoidalFuzzySet(Num(a), Num(b), Num(c), Num(d)) : a, b, c, d \in Coords}
AllZShape ==
    {ZShapeFuzzySet(Num(a), Num(b), k, inv) :
        a \in Coords, b \in Coords, k \in Channels, inv \in BOOLEAN}

WellFormedSets ==
    {fs \in AllConstant \cup AllTriangular \cup AllTrapezoidal \cup AllZShape :
        WellFormed(fs)}

(***************************************************************************)
(* SpecSet: one fuzzy set is constructed, with any parameters, and its     *)
(* membership is called on scalars and on input vectors.                   *)
(***************************************************************************)
InitSet ==
    /\ A = NoSet
    /\ B = NoSet
    /\ x = NoArg
    /\ call = "none"
    /\ ret = NoRet
    /\ system = NoSystem

NewConstant(value) ==
    /\ A = NoSet
    /\ A' = ConstantFuzzySet(Num(value))
    /\ UNCHANGED <<B, x, call, ret, system>>

NewTriangular(a, b, c) ==
    /\ A = NoSet
    /\ A' = TriangularFuzzySet(Num(a), Num(b), Num(c))
    /\ UNCHANGED <<B, x, call, ret, system>>

NewTrapezoidal(a, b, c, d) ==
    /\ A = NoSet
    /\ A' = TrapezoidalFuzzySet(Num(a), Num(b), Num(c), Num(d))
    /\ UNCHANGED <<B, x, call, ret, system>>

NewZShape(a, b, input_num, inverted) ==
    /\ A = NoSet
    /\ A' = ZShapeFuzzySet(Num(a), Num(b), input_num, inverted)
    /\ UNCHANGED <<B, x, call, ret, system>>

CallMembership(v) ==
    /\ A # NoSet
    /\ x' = v
    /\ call' = "membership"
    /\ ret' = membership(A, v)
    /\ UNCHANGED <<A, B, system>>

NextSet ==
    \/ \E value \in Coords : NewConstant(value)
    \/ \E a, b, c \in Coords : NewTriangular(a, b, c)
    \/ \E a, b, c, d \in Coords : NewTrapezoidal(a, b, c, d)
    \/ \E a, b \in Coords, k \in Channels, inv \in BOOLEAN : NewZShape(a, b, k, inv)
    \/ \E v \in Scalars \cup Vectors : CallMembership(v)

SpecSet == InitSet /\ [][NextSet]_vars

(***************************************************************************)
(* SpecPair: two well-formed sets A and B are combined, directly as        *)
(* AndFuzzySet / OrFuzzySet and through A & B / A | B as the antecedent    *)
(* of a rule, and the result is evaluated once.  A vector is passed only   *)
(* where both sets read vectors.                                           *)
(***************************************************************************)
Takes(fs, v) == ~v.isList \/ fs.cls = "ZShapeFuzzySet"

InitPair ==
    /\ A \in WellFormedSets
    /\ B \in WellFormedSets
    /\ x = NoArg
    /\ call = "none"
    /\ ret = NoRet
    /\ system = NoSystem

CallAndMembership(v) ==
    /\ call = "none"
    /\ Takes(A, v) /\ Takes(B, v)
    /\ x' = v
    /\ call' = "AndFuzzySet.membership"
    /\ ret' = membership(AndFuzzySet(A, B), v)
    /\ UNCHANGED <<A, B, system>>

CallOrMembership(v) ==
    /\ call = "none"
    /\ Takes(A, v) /\ Takes(B, v)
    /\ x' = v
    /\ call' = "OrFuzzySet.membership"
    /\ ret' = membership(OrFuzzySet(A, B), v)
    /\ UNCHANGED <<A, B, system>>

\* FuzzyRule(A & B, consequent).evaluate(v)
CallEvaluateAnd(v) ==
    /\ call = "none"
    /\ Takes(A, v) /\ Takes(B, v)
    /\ x' = v
    /\ call' = "evaluate_and"
    /\ ret' = IF Ok(BitAnd(A, B))
              THEN evaluate(FuzzyRule(BitAnd(A, B).val, ConstantFuzzySet(One)), v)
              ELSE Raise(BitAnd(A, B).exc)
    /\ UNCHANGED <<A, B, system>>

\* FuzzyRule(A | B, consequent).evaluate(v)
CallEvaluateOr(v) ==
    /\ call = "none"
    /\ Takes(A, v) /\ Takes(B, v)
    /\ x' = v
    /\ call' = "evaluate_or"
    /\ ret' = IF Ok(BitOr(A, B))
              THEN evaluate(FuzzyRule(BitOr(A, B).val, ConstantFuzzySet(One)), v)
              ELSE Raise(BitOr(A, B).exc)
    /\ UNCHANGED <<A, B, system>>

NextPair ==
    \/ \E v \in Scalars \cup Vectors : CallAndMembership(v)
    \/ \E v \in Scalars \cup Vectors : CallOrMembership(v)
    \/ \E v \in Scalars \cup Vectors : CallEvaluateAnd(v)
    \/ \E v \in Scalars \cup Vectors : CallEvaluateOr(v)

SpecPair == InitPair /\ [][NextPair]_vars

(***************************************************************************)
(* Spec: a FuzzySystem is constructed from a list of rules and output is   *)
(* called on input vectors, as the cart-pole controller does.              *)
(***************************************************************************)
LastChannel == NumChannels - 1

\* Z/S sets on the first channel and their AND / OR with the last one
Antecedents ==
    {ZShapeFuzzySet(Zero, Num(MaxCoord), 0, FALSE),
     ZShapeFuzzySet(Zero, Num(MaxCoord), 0, TRUE),
     AndFuzzySet(ZShapeFuzzySet(Zero, Num(MaxCoord), 0, FALSE),
                 ZShapeFuzzySet(Zero, Num(MaxCoord), LastChannel, FALSE)),
     OrFuzzySet(ZShapeFuzzySet(Zero, Num(MaxCoord), 0, TRUE),
                ZShapeFuzzySet(Zero, Num(MaxCoord), LastChannel, TRUE))}

\* two singleton consequents and one set that has no x_value
Consequents ==
    {ConstantFuzzySet(Num(0 - 1)), ConstantFuzzySet(Num(2)),
     ZShapeFuzzySet(Zero, One, 0, FALSE)}

\* input vectors for the system: each component at the lower corner of the
\* antecedents, inside their ramp, or at the upper corner
Inputs == {List(s) : s \in [1..NumChannels -> {Zero, One, Num(MaxCoord)}]}

Rules == {FuzzyRule(ant, con) : ant \in Antecedents, con \in Consequents}

RuleLists == UNION {[1..n -> Rules] : n \in 0..MaxRules}

Init ==
    /\ A = NoSet
    /\ B = NoSet
    /\ x = NoArg
    /\ call = "none"
    /\ ret = NoRet
    /\ system = NoSystem

NewFuzzySystem(rules) ==
    /\ system = NoSystem
    /\ system' = FuzzySystem(rules)
    /\ UNCHANGED <<A, B, x, call, ret>>

OutputPopsRule(v) ==
    /\ system # NoSystem
    /\ x' = v
    /\ call' = "output"
    /\ ret' = output(system, v)
    /\ system' = IF Len(system.rules) > 1
                 THEN FuzzySystem(Tail(system.rules)) ELSE system
    /\ UNCHANGED <<A, B>>

Output(v) ==
    /\ system # NoSystem
    /\ x' = v
    /\ call' = "output"
    /\ ret' = output(system, v)
    /\ UNCHANGED <<A, B, system>>

Next ==
    \/ \E rules \in RuleLists : NewFuzzySystem(rules)
    \/ \E v \in Inputs : Output(v)

Spec == Init /\ [][Next]_vars

(***************************************************************************)
(* Helpers of the properties below.                                        *)
(***************************************************************************)
InUnit(p) == RatLe(Zero, p) /\ RatLe(p, One)
Interior(p) == RatLt(Zero, p) /\ RatLt(p, One)

\* q is the smaller (the larger) of p1 and p2
IsMinOf(q, p1, p2) == (q = p1 \/ q = p2) /\ RatLe(q, p1) /\ RatLe(q, p2)
IsMaxOf(q, p1, p2) == (q = p1 \/ q = p2) /\ RatLe(p1, q) /\ RatLe(p2, q)

RECURSIVE Sigma(_, _)
Sigma(f, n) == IF n = 0 THEN Zero ELSE RatAdd(Sigma(f, n - 1), f[n])

HasInverse(fs) == fs.cls = "ConstantFuzzySet"

\* the firing strength and the crisp value of rule i of the system on input x
Strength(i) == evaluate(system.rules[i], x)
Value(i) == get_output(system.rules[i])

(***************************************************************************)
(* Properties of FuzzySystem (checked under Spec).                         *)
(***************************************************************************)
\* C1: on an engine with at least one rule, output returns exactly 0 when
\* the largest firing strength is 0, and otherwise the sum of
\* strength_i * value_i over all rules divided by the sum of strength_i over
\* all rules, value_i being get_output() without an input (stated for the
\* engines whose get_output returns, since value_i is undefined otherwise).
C1_WeightedAverage ==
    (call = "output" /\ Len(system.rules) >= 1) =>
        LET idx == 1..Len(system.rules)
            s == [i \in idx |-> Strength(i).val]
            w == [i \in idx |-> RatMul(Strength(i).val, Value(i).val)]
        IN  /\ \A i \in idx : Ok(Strength(i))
            /\ IF (\A i \in idx : RatLe(s[i], Zero)) /\ (\E i \in idx : s[i] = Zero)
               THEN ret = Return(Zero)
               ELSE (\A i \in idx : Ok(Value(i))) =>
                        /\ Ok(ret)
                        /\ RatMul(ret.val, Sigma(s, Len(s))) = Sigma(w, Len(w))

\* a rule of strength 0 sits beside one that fires partially, and the output
\* is the firing rule's value
C1_Witness ==
    /\ call = "output"
    /\ Len(system.rules) = 2
    /\ Strength(1) = Return(Zero)
    /\ Interior(Strength(2).val)
    /\ Ok(Value(1)) /\ Ok(Value(2)) /\ Value(1) # Value(2)
    /\ ret = Value(2)

\* C2: an engine with an empty rule collection is rejected at construction,
\* so no engine with zero rules exists.
C2_EmptyEngineRejected ==
    system # NoSystem => Len(system.rules) > 0

\* C4: a rule whose consequent has no inverse mapping is rejected; output on
\* an engine holding such a rule never returns a numeric value.
C4_NoInverseNeverNumeric ==
    (call = "output"
        /\ \E i \in 1..Len(system.rules) : ~HasInverse(system.rules[i].consequent))
    => ~Ok(ret)

\* C9: a call of output changes no field of the engine, its rules or their
\* sets, and a call with the input of the call before it returns the same
\* value.
C9_OutputIsPure ==
    [][system # NoSystem =>
          /\ system' = system
          /\ (call = "output" /\ x' = x) => ret' = ret]_vars

\* output has been called on a two-rule engine and returned a nonzero value
C9_Witness ==
    /\ call = "output"
    /\ Len(system.rules) = 2
    /\ Ok(ret) /\ ret.val # Zero

(***************************************************************************)
(* Properties of one fuzzy set (checked under SpecSet).                    *)
(***************************************************************************)
\* C3: a set with malformed shape parameters (Triangular not a <= b <= c,
\* Trapezoidal not a <= b <= c <= d, Z/S-shape with a >= b) is rejected at
\* construction, so every set that exists is well formed.
C3_MalformedRejected ==
    A # NoSet => WellFormed(A)

\* C6: for Triangular(a, b, c) with a <= b <= c, the degenerate shapes
\* a = b and b = c included, membership(b) is exactly 1.
C6_PeakIsOne ==
    (call = "membership" /\ A.cls = "TriangularFuzzySet" /\ WellFormed(A)
        /\ x = Scalar(A.b))
    => ret = Return(One)

\* C7: for a < b, a Z-shape set and its inverted counterpart with the same
\* (a, b) and channel index have memberships that add up to 1, on every
\* scalar and on every input vector.
C7_ZSComplement ==
    (call = "membership" /\ A.cls = "ZShapeFuzzySet" /\ WellFormed(A)) =>
        LET S == ZShapeFuzzySet(A.a, A.b, A.input_num, ~A.inverted)
            m == membership(S, x)
        IN  Ok(ret) /\ Ok(m) /\ RatAdd(ret.val, m.val) = One

\* a Z-shape set on the last channel is evaluated inside its ramp on a vector
C7_Witness ==
    /\ call = "membership"
    /\ A.cls = "ZShapeFuzzySet" /\ WellFormed(A)
    /\ ~A.inverted /\ A.input_num = LastChannel
    /\ x.isList
    /\ Interior(ret.val)

(***************************************************************************)
(* Properties of two combined sets (checked under SpecPair).               *)
(***************************************************************************)
\* C5: for well-formed Constant, Triangular, Trapezoidal and Z/S-shape sets
\* and their AND/OR composites, membership(x) is defined (nothing raises, no
\* division by zero) and lies in [0, 1].  The AND is the smaller and the OR
\* the larger of the two operands' memberships, so both operands are covered.
C5_MembershipInUnitInterval ==
    (call \in {"AndFuzzySet.membership", "OrFuzzySet.membership"}
        /\ WellFormed(A) /\ WellFormed(B))
    => Ok(ret) /\ InUnit(ret.val)

\* a degenerate triangle (a = b) and a trapezoid with c = d, evaluated inside
C5_Witness ==
    /\ call = "AndFuzzySet.membership"
    /\ A.cls = "TriangularFuzzySet" /\ A.a = A.b
    /\ B.cls = "TrapezoidalFuzzySet" /\ B.c = B.d
    /\ Ok(ret) /\ Interior(ret.val)

\* C8: AND(A, B).membership(x) is the minimum and OR(A, B).membership(x) the
\* maximum of A.membership(x) and B.membership(x), and both are commutative.
C8_MinMaxCommutative ==
    LET mA == membership(A, x)
        mB == membership(B, x)
    IN  /\ call = "AndFuzzySet.membership" =>
              /\ Ok(ret) /\ Ok(mA) /\ Ok(mB)
              /\ IsMinOf(ret.val, mA.val, mB.val)
              /\ ret = membership(AndFuzzySet(B, A), x)
        /\ call = "OrFuzzySet.membership" =>
              /\ Ok(ret) /\ Ok(mA) /\ Ok(mB)
              /\ IsMaxOf(ret.val, mA.val, mB.val)
              /\ ret = membership(OrFuzzySet(B, A), x)

\* two sets with different partial memberships are combined
C8_Witness ==
    /\ call = "AndFuzzySet.membership"
    /\ Interior(membership(A, x).val) /\ Interior(membership(B, x).val)
    /\ membership(A, x) # membership(B, x)
    /\ ret = membership(B, x)

\* C10 as stated: for any A and B that support & and |, two Trapezoidal sets
\* included, a rule on A & B fires with min(A.membership(x), B.membership(x))
\* and a rule on A | B with the max.
C10_RuleAlwaysLazy ==
    LET mA == membership(A, x)
        mB == membership(B, x)
    IN  /\ (call = "evaluate_and" /\ Ok(BitAnd(A, B))) =>
              Ok(ret) /\ IsMinOf(ret.val, mA.val, mB.val)
        /\ (call = "evaluate_or" /\ Ok(BitOr(A, B))) =>
              Ok(ret) /\ IsMaxOf(ret.val, mA.val, mB.val)

\* C10 amended: when the left operand of & or | is a Z/S-shape set the rule
\* fires with the pointwise min or max; for two Trapezoidal sets the rule
\* fires with the membership of the trapezoid of combined corners.
C10_RuleLazyForZShape ==
    LET mA == membership(A, x)
        mB == membership(B, x)
    IN  /\ (call = "evaluate_and" /\ A.cls = "ZShapeFuzzySet") =>
              Ok(ret) /\ IsMinOf(ret.val, mA.val, mB.val)
        /\ (call = "evaluate_or" /\ A.cls = "ZShapeFuzzySet") =>
              Ok(ret) /\ IsMaxOf(ret.val, mA.val, mB.val)
        /\ (call = "evaluate_and" /\ A.cls = "TrapezoidalFuzzySet"
                /\ B.cls = "TrapezoidalFuzzySet") =>
              ret = TrapezoidalMembership(
                        TrapezoidalFuzzySet(NumMax(A.a, B.a), NumMax(A.b, B.b),
                                            NumMin(A.c, B.c), NumMin(A.d, B.d)), x)
        /\ (call = "evaluate_or" /\ A.cls = "TrapezoidalFuzzySet"
                /\ B.cls = "TrapezoidalFuzzySet") =>
              ret = TrapezoidalMembership(
                        TrapezoidalFuzzySet(NumMin(A.a, B.a), NumMin(A.b, B.b),
                                            NumMax(A.c, B.c), NumMax(A.d, B.d)), x)

\* a rule on Z & S over two different channels fires partially on a vector
C10_Witness ==
    /\ call = "evaluate_and"
    /\ A.cls = "ZShapeFuzzySet" /\ B.cls = "ZShapeFuzzySet"
    /\ A.input_num # B.input_num
    /\ x.isList
    /\ Interior(ret.val)
    /\ membership(A, x) # membership(B, x)

=============================================================================
